---- MODULE Spec2Model ----
(***************************************************************************)
(* Model of the oort3 simulation core: Simulation::step and the accessors  *)
(* of src/src/simulation.rs, and the radar plugin (set_heading, set_width, *)
(* scan) of src/simulator/src/script/rhai/radar.rs.                        *)
(*                                                                         *)
(* Numbers.  Angles are whole degrees (TAU = 360).  Positions are integer  *)
(* grid points.  A signal strength is an exact rational <<num, den>>; the  *)
(* positive factor 1/TAU^2 common to every strength and threshold is       *)
(* dropped (power*tcs*rcs / (TAU*width*r_sq) with width = w*TAU/360 is     *)
(* 360*power*tcs*rcs / (w*r_sq) in units of 1/TAU^2).                      *)
(***************************************************************************)
EXTENDS Integers, Sequences, FiniteSets, TLC

(* ---------------------------- bounds ----------------------------------- *)
MaxTick == 2            \* steps taken in one behaviour
MaxEvents == 2          \* contact events the physics pipeline queues per step

(* ------------------------- program constants --------------------------- *)
TAU == 360              \* a full circle, in degrees
WALL_COLLISION_GROUP == 0
SHIP_COLLISION_GROUP == 1
BULLET_COLLISION_GROUP == 2

(* ------------------------- the bodies of a run ------------------------- *)
ShipIds == {1, 2, 3}
BulletIds == {4, 5}
WallIds == {6}
None == -1              \* Option::None where an index is expected
NoRadar == [none |-> TRUE]

ColliderOf(b) == 10 + b          \* the collider attached to body b
OrphanCollider == ColliderOf(7)  \* a collider without parent body

Zero2 == <<0, 0>>
NaN == -1000             \* the f64 value NaN, where a width is expected

(* requests an agent makes *)
HeadingRequests == {0, 90}
WidthRequests == {0, 180, 720, NaN}

Started(a, b) == [started |-> TRUE, h1 |-> a, h2 |-> b]
Stopped(a, b) == [started |-> FALSE, h1 |-> a, h2 |-> b]

(* the contact events the physics pipeline may report, by collider handle *)
ContactAlphabet ==
  { Started(ColliderOf(4), ColliderOf(1)),     \* bullet, ship
    Started(ColliderOf(1), ColliderOf(5)),     \* ship, bullet
    Started(ColliderOf(2), ColliderOf(5)),
    Started(ColliderOf(1), ColliderOf(2)),     \* ship, ship
    Started(ColliderOf(4), ColliderOf(5)),     \* bullet, bullet
    Started(ColliderOf(6), ColliderOf(2)),     \* wall, ship
    Started(OrphanCollider, ColliderOf(1)),    \* no parent body
    Stopped(ColliderOf(4), ColliderOf(1)) }

(* how many intersection events the physics pipeline may report in a step *)
IntersectionCounts == {0, 1}

SeqsUpTo(S, n) == UNION { [1..k -> S] : k \in 0..n }

NewRadar ==
  [none |-> FALSE, heading |-> 0, width |-> TAU, scanned |-> FALSE,
   power |-> 4, rx_cross_section |-> 1, min_rssi |-> <<1, 1>>]

(* the detection thresholds a radar may be built with *)
Thresholds == {<<1, 1>>, <<-1, 1>>}

(* A scenario: the bodies created, the ships' placement and teams, which   *)
(* ships carry a radar and the radars' threshold.  A "battle" holds two    *)
(* bullets, a wall and a parentless collider; a "skirmish" one bullet and  *)
(* one radar; a "patrol" ships only, two of them with a radar; a "probe"   *)
(* ships only and one radar with a threshold below zero.                   *)
Placements ==
  { (1 :> <<0, 0>> @@ 2 :> <<1, 0>> @@ 3 :> <<0, 2>>),
    (1 :> <<0, 0>> @@ 2 :> <<1, 0>> @@ 3 :> <<0, 1>>) }

TeamChoices == { (1 :> 0 @@ 2 :> t2 @@ 3 :> t3) : t2 \in {0, 1}, t3 \in {0, 1} }

Scenarios ==
  { [bullets |-> BulletIds, walls |-> WallIds, orphan |-> TRUE,
     place |-> CHOOSE p \in Placements : p[3] = <<0, 2>>, team |-> tm, radars |-> {},
     min_rssi |-> <<1, 1>>]
      : tm \in TeamChoices }
  \cup
  { [bullets |-> {5}, walls |-> {}, orphan |-> FALSE,
     place |-> p, team |-> tm, radars |-> {1}, min_rssi |-> <<1, 1>>]
      : p \in Placements, tm \in {t \in TeamChoices : t[3] = 1} }
  \cup
  { [bullets |-> {}, walls |-> {}, orphan |-> FALSE,
     place |-> CHOOSE p \in Placements : p[3] = <<0, 1>>, team |-> tm, radars |-> {1, 2},
     min_rssi |-> <<1, 1>>]
      : tm \in {t \in TeamChoices : t[2] = 1 /\ t[3] = 1} }
  \cup
  { [bullets |-> {}, walls |-> {}, orphan |-> FALSE,
     place |-> CHOOSE p \in Placements : p[3] = <<0, 2>>, team |-> tm, radars |-> {1},
     min_rssi |-> m]
      : tm \in {t \in TeamChoices : t[2] = 0 /\ t[3] = 1}, m \in Thresholds \ {<<1, 1>>} }

VARIABLES ships, bullets, bodies, colliders, shipData, bulletData,
          contact_recv, intersection_recv, collided, tick, last

vars == <<ships, bullets, bodies, colliders, shipData, bulletData,
          contact_recv, intersection_recv, collided, tick, last>>

(* Simulation::new followed by the scenario's ship::create / bullet::create *)
Init ==
  \E sc \in Scenarios :
    /\ ships = ShipIds
    /\ bullets = sc.bullets
    /\ bodies = [b \in ShipIds \cup sc.bullets \cup sc.walls |->
                    [pos |-> IF b \in ShipIds THEN sc.place[b] ELSE <<b, b>>,
                     vel |-> Zero2, rot |-> 0,
                     group |-> IF b \in ShipIds THEN SHIP_COLLISION_GROUP
                               ELSE IF b \in BulletIds THEN BULLET_COLLISION_GROUP
                               ELSE WALL_COLLISION_GROUP]]
    /\ colliders =
         [c \in {ColliderOf(b) : b \in ShipIds \cup sc.bullets \cup sc.walls}
                \cup (IF sc.orphan THEN {OrphanCollider} ELSE {}) |->
            IF c = OrphanCollider THEN None ELSE c - 10]
    /\ shipData = [s \in ShipIds |->
                      [team |-> sc.team[s],
                       radar_cross_section |-> 1,
                       radar |-> IF s \in sc.radars
                                   THEN [NewRadar EXCEPT !.min_rssi = sc.min_rssi]
                                   ELSE NoRadar]]
    /\ bulletData = [b \in sc.bullets |-> [team |-> IF b = 4 THEN 0 ELSE 1]]
    /\ contact_recv = <<>>
    /\ intersection_recv = <<>>
    /\ collided = FALSE
    /\ tick = 0
    /\ last = [op |-> "new"]

(* ======================= src/src/simulation.rs ========================= *)

(* the simulation's fields, and the handles passed to explode so far in    *)
(* the current call (a record for the properties, not program state)       *)
World == [ships |-> ships, bullets |-> bullets, bodies |-> bodies,
          colliders |-> colliders, shipData |-> shipData, collided |-> collided,
          exploded |-> <<>>]

(* Restrict f to the domain elements in S *)
Restrict(f, S) == [x \in S |-> f[x]]

(* self.colliders.get(h).and_then(|x| x.parent()).map(|x| x.0) *)
get_index(cs, h) == IF h \in DOMAIN cs THEN cs[h] ELSE None

(* ShipAccessorMut::explode: the ship leaves the ships set and its body,   *)
(* with the colliders attached to it, leaves the physics world.            *)
explode(w, h) ==
  [w EXCEPT !.ships = @ \ {h},
            !.shipData = Restrict(@, DOMAIN @ \ {h}),
            !.bodies = Restrict(@, DOMAIN @ \ {h}),
            !.colliders = Restrict(@, {c \in DOMAIN @ : @[c] # h}),
            !.exploded = Append(@, h)]

(* variant: only the (bullet, ship) argument order is handled *)
ResolveContact_OneOrder(w, idx1, idx2) ==
  IF idx1 \in w.bullets /\ idx2 \in w.ships
    THEN explode(w, idx2)
    ELSE w

(* variant: a ship explodes on contact with anything *)
ResolveContact_AnyContact(w, idx1, idx2) ==
  IF idx2 \in w.ships
    THEN explode(w, idx2)
    ELSE IF idx1 \in w.ships
           THEN explode(w, idx1)
           ELSE w

(* the destruction policy for a started contact between two resolved bodies *)
ResolveContact(w, idx1, idx2) ==
  IF idx1 \in w.bullets /\ idx2 \in w.ships
    THEN explode(w, idx2)
    ELSE IF idx2 \in w.bullets /\ idx1 \in w.ships
           THEN explode(w, idx1)
           ELSE w

(* the value of self.collided after a ContactEvent::Started was handled *)
CollidedAfter(before) == TRUE

(* variant: the flag is set only when both colliders resolve *)
OnContactEvent_FlagInside(w, ev) ==
  IF ev.started
    THEN LET idx1 == get_index(w.colliders, ev.h1)
             idx2 == get_index(w.colliders, ev.h2)
         IN IF idx1 # None /\ idx2 # None
              THEN [ResolveContact(w, idx1, idx2) EXCEPT !.collided = TRUE]
              ELSE w
    ELSE w

(* the body of the `while let Ok(event) = self.contact_recv.try_recv()` loop *)
OnContactEvent(w, ev) ==
  IF ev.started
    THEN LET idx1 == get_index(w.colliders, ev.h1)
             idx2 == get_index(w.colliders, ev.h2)
             w2 == IF idx1 # None /\ idx2 # None
                     THEN ResolveContact(w, idx1, idx2)
                     ELSE w
         IN [w2 EXCEPT !.collided = CollidedAfter(w.collided)]
    ELSE w


(* ---- what one step did, recorded for the properties (not program state) *)
NoObs == [pairShips |-> {}, pairBullets |-> {}, sameTeam |-> FALSE, shipFirst |-> FALSE,
          nonPair |-> {}, nonPairDelta |-> FALSE, started |-> FALSE,
          drained |-> 0, stale |-> FALSE, unresolved |-> FALSE,
          unresolvedDelta |-> FALSE, pairAfterUnresolved |-> FALSE]

(* a started contact whose two colliders resolve to a bullet and a ship *)
IsBulletShip(w, a, b) == a \in w.bullets /\ b \in w.ships

KindOf(w, idx) ==
  IF idx \in w.bullets THEN "bullet" ELSE IF idx \in w.ships THEN "ship" ELSE "boundary"

Observe(obs, w, ev, w2) ==
  LET idx1 == get_index(w.colliders, ev.h1)
      idx2 == get_index(w.colliders, ev.h2)
      resolved == idx1 # None /\ idx2 # None
      fwd == resolved /\ IsBulletShip(w, idx1, idx2)
      bwd == resolved /\ IsBulletShip(w, idx2, idx1)
      other == resolved /\ ~fwd /\ ~bwd
  IN IF ~ev.started THEN [obs EXCEPT !.drained = @ + 1]
     ELSE [obs EXCEPT
             !.started = TRUE,
             !.drained = @ + 1,
             !.stale = @ \/ ev.h1 \notin DOMAIN w.colliders \/ ev.h2 \notin DOMAIN w.colliders,
             !.unresolved = @ \/ ~resolved,
             !.unresolvedDelta = @ \/ (~resolved /\ (w2.ships # w.ships \/ w2.bullets # w.bullets)),
             !.pairAfterUnresolved = @ \/ (obs.unresolved /\ (fwd \/ bwd)),
             !.pairShips = @ \cup (IF fwd THEN {idx2} ELSE {}) \cup (IF bwd THEN {idx1} ELSE {}),
             !.pairBullets = @ \cup (IF fwd THEN {idx1} ELSE {}) \cup (IF bwd THEN {idx2} ELSE {}),
             !.sameTeam = @ \/ (fwd /\ bulletData[idx1].team = w.shipData[idx2].team)
                            \/ (bwd /\ bulletData[idx2].team = w.shipData[idx1].team),
             !.shipFirst = @ \/ (bwd /\ ~fwd),
             !.nonPair = @ \cup (IF other THEN {<<KindOf(w, idx1), KindOf(w, idx2)>>} ELSE {}),
             !.nonPairDelta = @ \/ (other /\ (w2.ships # w.ships \/ w2.bullets # w.bullets))]

(* variant: the queue is read from its tail *)
RECURSIVE DrainContacts_Lifo(_, _, _)
DrainContacts_Lifo(w, q, obs) ==
  IF q = <<>>
    THEN [w |-> w, q |-> q, obs |-> obs]
    ELSE LET ev == q[Len(q)]
             w2 == OnContactEvent(w, ev)
         IN DrainContacts_Lifo(w2, SubSeq(q, 1, Len(q) - 1), Observe(obs, w, ev, w2))

(* variant: the loop ends at an event whose colliders do not resolve *)
RECURSIVE DrainContacts_AbortOnUnresolved(_, _, _)
DrainContacts_AbortOnUnresolved(w, q, obs) ==
  IF q = <<>>
    THEN [w |-> w, q |-> q, obs |-> obs]
    ELSE IF /\ Head(q).started
            /\ \/ get_index(w.colliders, Head(q).h1) = None
               \/ get_index(w.colliders, Head(q).h2) = None
           THEN [w |-> w, q |-> Tail(q), obs |-> Observe(obs, w, Head(q), w)]
           ELSE LET w2 == OnContactEvent(w, Head(q))
                IN DrainContacts_AbortOnUnresolved(w2, Tail(q), Observe(obs, w, Head(q), w2))

(* variant: `if let` in place of `while let`, one event is read *)
DrainContacts_One(w, q, obs) ==
  IF q = <<>>
    THEN [w |-> w, q |-> q, obs |-> obs]
    ELSE LET w2 == OnContactEvent(w, Head(q))
         IN [w |-> w2, q |-> Tail(q), obs |-> Observe(obs, w, Head(q), w2)]

(* `while let Ok(event) = self.contact_recv.try_recv() { ... }`: the queue *)
(* is read from its head until it is empty                                *)
RECURSIVE DrainContacts(_, _, _)
DrainContacts(w, q, obs) ==
  IF q = <<>>
    THEN [w |-> w, q |-> q, obs |-> obs]
    ELSE LET w2 == OnContactEvent(w, Head(q))
         IN DrainContacts(w2, Tail(q), Observe(obs, w, Head(q), w2))

(* `while self.intersection_recv.try_recv().is_ok() {}` *)
RECURSIVE DrainIntersections(_)
DrainIntersections(q) == IF q = <<>> THEN q ELSE DrainIntersections(Tail(q))

(* the events physics_pipeline.step may send for the colliders it holds *)
LiveContacts(cs) == { e \in ContactAlphabet : e.h1 \in DOMAIN cs /\ e.h2 \in DOMAIN cs }

(* the ships a queue of events destroys when it is handled from its head: *)
(* for each started bullet/ship contact, in queue order, its ship, unless  *)
(* an earlier event of the queue named that ship already                   *)
RECURSIVE FirstHits(_, _, _)
FirstHits(w, q, seen) ==
  IF q = <<>>
    THEN <<>>
    ELSE LET idx1 == get_index(w.colliders, Head(q).h1)
             idx2 == get_index(w.colliders, Head(q).h2)
             hit == IF Head(q).started /\ IsBulletShip(w, idx1, idx2) THEN idx2
                    ELSE IF Head(q).started /\ IsBulletShip(w, idx2, idx1) THEN idx1
                    ELSE None
         IN IF hit # None /\ hit \notin seen
              THEN <<hit>> \o FirstHits(w, Tail(q), seen \cup {hit})
              ELSE FirstHits(w, Tail(q), seen)

(* what a finished step is remembered by (for the properties) *)
StepRecord(w, queue, r, n) ==
  [op |-> "step", obs |-> r.obs, queued |-> Len(queue), intersections |-> n,
   exploded |-> r.w.exploded, expected |-> FirstHits(w, queue, {}),
   quiet |-> (r.w.ships = w.ships /\ r.w.bullets = w.bullets /\ r.w.collided = w.collided)]

(* Simulation::step *)
Step ==
  /\ tick < MaxTick
  /\ \E evs \in SeqsUpTo(LiveContacts(colliders), MaxEvents) :
       \E r \in {DrainContacts(World, contact_recv \o evs, NoObs)} :
          /\ ships' = r.w.ships
          /\ bullets' = r.w.bullets
          /\ bodies' = r.w.bodies
          /\ colliders' = r.w.colliders
          /\ shipData' = r.w.shipData
          /\ collided' = r.w.collided
          /\ contact_recv' = r.q
          /\ \E n \in IntersectionCounts :
               /\ intersection_recv' =
                    DrainIntersections(intersection_recv \o [i \in 1..n |-> "intersection"])
               /\ last' = StepRecord(World, contact_recv \o evs, r, n)
  /\ tick' = tick + 1
  /\ UNCHANGED bulletData

(* variant: the accessor is bound to a default handle *)
ship_Default(handle) == [kind |-> "ShipAccessor", handle |-> 0]

(* Simulation::ship / ship_mut / bullet: the accessor built for a handle *)
ship(handle) == [kind |-> "ShipAccessor", handle |-> handle]
ship_mut(handle) == [kind |-> "ShipAccessorMut", handle |-> handle]
bullet(handle) == [kind |-> "BulletAccessor", handle |-> handle]

ShipLookup ==
  /\ \E h \in ShipIds, mut \in BOOLEAN :
       last' = [op |-> "lookup", handle |-> h,
                accessor |-> IF mut THEN ship_mut(h) ELSE ship(h)]
  /\ UNCHANGED <<ships, bullets, bodies, colliders, shipData, bulletData,
                 contact_recv, intersection_recv, collided, tick>>

BulletLookup ==
  /\ \E h \in BulletIds :
       last' = [op |-> "lookup", handle |-> h, accessor |-> bullet(h)]
  /\ UNCHANGED <<ships, bullets, bodies, colliders, shipData, bulletData,
                 contact_recv, intersection_recv, collided, tick>>

(* ================ src/simulator/src/script/rhai/radar.rs =============== *)

Min(a, b) == IF a < b THEN a ELSE b
Max(a, b) == IF a > b THEN a ELSE b
(* f64::clamp: NaN is returned as it is *)
clamp(x, lo, hi) == IF x = NaN THEN NaN ELSE Max(lo, Min(x, hi))

(* exact comparison of two rationals <<num, den>>, den >= 0; a zero        *)
(* denominator under a positive numerator is +infinity                     *)
RssiGT(a, b) == a[1] * b[2] > b[1] * a[2]
RssiEQ(a, b) == a # <<0, 0>> /\ b # <<0, 0>> /\ a[1] * b[2] = b[1] * a[2]
RssiZero == <<0, 1>>
RssiNaN == <<0, 0>>      \* compares false with everything, itself included

(* variant: a missing radar is created on demand *)
set_heading_Install(data, heading) ==
  [data EXCEPT !.radar = [NewRadar EXCEPT !.heading = heading]]

(* plugin::set_heading, on the ship's data *)
set_heading(data, heading) ==
  IF data.radar # NoRadar
    THEN [data EXCEPT !.radar.heading = heading]
    ELSE data

(* plugin::set_width, on the ship's data *)
set_width(data, width) ==
  IF data.radar # NoRadar
    THEN [data EXCEPT !.radar.width = clamp(width, TAU \div 360, TAU)]
    ELSE data

(* UnitComplex::new(h).transform_vector(&vector![1.0, 0.0]) for the        *)
(* headings of the model, multiples of a quarter turn                      *)
UnitVec(h) ==
  CASE h % TAU = 0 -> <<1, 0>>
    [] h % TAU = 90 -> <<0, 1>>
    [] h % TAU = 180 -> <<-1, 0>>
    [] h % TAU = 270 -> <<0, -1>>

compute_beam(radar, ship_position, ship_heading) ==
  LET h == radar.heading + ship_heading
      w == radar.width
  IN [center |-> ship_position, power |-> radar.power, width |-> w,
      start_bearing |-> 2 * h - w, end_bearing |-> 2 * h + w,   \* in half degrees
      center_vec |-> UnitVec(h)]

Dot(u, v) == u[1] * v[1] + u[2] * v[2]
Sub(u, v) == <<u[1] - v[1], u[2] - v[2]>>

(* cos^2 of half the beam width, <<num, den>>; cos^2(0.5 deg) = 0.999923.. *)
(* is cut to five digits: no two grid directions are that close            *)
CosSqHalf(w) ==
  CASE w = 1 -> <<99992, 100000>>
    [] w = 90 -> <<1, 2>>
    [] w = 180 -> <<0, 1>>
    [] w = 270 -> <<1, 2>>
    [] w = 360 -> <<1, 1>>

(* (other_position - beam.center).angle(&beam.center_vec) > beam.width * 0.5 *)
(* angle() is acos of the normalised dot product, 0 for a zero vector      *)
OutsideBeam(beam, other_position) ==
  LET u == Sub(other_position, beam.center)
      d == Dot(u, beam.center_vec)
      n == Dot(u, u) * Dot(beam.center_vec, beam.center_vec)
      k == CosSqHalf(beam.width)
  IN IF beam.width = NaN
       THEN FALSE                      \* a comparison with NaN is false
       ELSE IF beam.width <= 180
              THEN d < 0 \/ d * d * k[2] < k[1] * n
              ELSE d < 0 /\ d * d * k[2] > k[1] * n

(* variant: the beam test is left out *)
compute_rssi_NoBeamTest(w, beam, source, target) ==
  LET other_position == w.bodies[target].pos
      r_sq == Dot(Sub(beam.center, other_position), Sub(beam.center, other_position))
  IN IF beam.width = NaN
       THEN RssiNaN
       ELSE <<360 * beam.power * w.shipData[target].radar_cross_section
                  * w.shipData[source].radar.rx_cross_section,
              beam.width * r_sq>>

(* compute_rssi, in units of 1/TAU^2 *)
compute_rssi(w, beam, source, target) ==
  LET other_position == w.bodies[target].pos
  IN IF OutsideBeam(beam, other_position)
       THEN RssiZero
       ELSE LET r_sq == Dot(Sub(beam.center, other_position), Sub(beam.center, other_position))
                target_cross_section == w.shipData[target].radar_cross_section
                rx_cross_section == w.shipData[source].radar.rx_cross_section
            IN IF beam.width = NaN
                 THEN RssiNaN
                 ELSE <<360 * beam.power * target_cross_section * rx_cross_section,
                        beam.width * r_sq>>

(* rng::new_rng(seed): a stream identified by its seed and the number of   *)
(* samples already taken from it                                           *)
new_rng(seed) == [seed |-> seed, taken |-> 0]

(* variant: the stream is seeded with a fixed value *)
scan_rng_Unseeded(now) == new_rng(0)

(* line 75: `let mut rng = rng::new_rng(sim.tick())`, the stream a scan    *)
(* draws from                                                              *)
scan_rng(now) == new_rng(now)

(* noise(rng, rssi): two StandardNormal samples scaled by 1/rssi           *)
noise(rng, rssi) ==
  [value |-> [seed |-> rng.seed, samples |-> <<rng.taken + 1, rng.taken + 2>>,
              over |-> rssi],
   rng |-> [rng EXCEPT !.taken = @ + 2]]

NoNoise == [seed |-> None, samples |-> <<>>, over |-> RssiZero]

(* a vector known as a raw value plus a noise term *)
Vec(raw, n) == [raw |-> raw, noise |-> n]

NotFound == [found |-> FALSE, position |-> Vec(Zero2, NoNoise), velocity |-> Vec(Zero2, NoNoise)]

(* variant: the used flag is never honoured *)
AlreadyScanned_Never(radar) == FALSE

(* line 63: the sensor was already used *)
AlreadyScanned(radar) == radar.scanned

(* variant: no ship is skipped *)
SkipTeam_Never(other_team, own_team) == FALSE

(* line 77: ships of the scanner's team are skipped *)
SkipTeam(other_team, own_team) == other_team = own_team

(* variant: any signal above zero counts as detected *)
Improves_AnySignal(rssi, min_rssi, found, best_rssi) ==
  RssiGT(rssi, RssiZero) /\ (~found \/ RssiGT(rssi, best_rssi))

(* variant: the latest ship above the threshold wins *)
Improves_Latest(rssi, min_rssi, found, best_rssi) == RssiGT(rssi, min_rssi)

(* variant: the threshold itself counts as detected *)
Improves_AtThreshold(rssi, min_rssi, found, best_rssi) ==
  ~RssiGT(min_rssi, rssi) /\ (~found \/ RssiGT(rssi, best_rssi))

(* line 81: the candidate replaces the current result *)
Improves(rssi, min_rssi, found, best_rssi) ==
  RssiGT(rssi, min_rssi) /\ (~found \/ RssiGT(rssi, best_rssi))

(* `let n = 20` of draw_beam *)
BeamSegments == 20

(* a debug line, by the bearings of its two ends: an end is the beam's     *)
(* centre (None) or the point at range r on a bearing, the bearing held as *)
(* a numerator over BeamSegments in half degrees (NaN for a NaN width)     *)
Line(a, b) == [a |-> a, b |-> b]
ArcLines(beam, n) ==
  LET w == beam.end_bearing - beam.start_bearing
      at(i) == IF beam.width = NaN THEN NaN ELSE n * beam.start_bearing + w * i
  IN [i \in 1..n |-> Line(at(i - 1), at(i))]
RayLines(beam, n) ==
  LET at(b) == IF beam.width = NaN THEN NaN ELSE n * b
  IN <<Line(None, at(beam.start_bearing)), Line(None, at(beam.end_bearing))>>

(* Simulation::emit_debug_lines: the lines join the step's debug output,   *)
(* held as the sequence of batches handed over                             *)
emit_debug_lines(emitted, lines) == Append(emitted, lines)

(* variant: the two boundary rays are not drawn *)
draw_beam_ArcsOnly(emitted, radar, beam) ==
  emit_debug_lines(emitted, ArcLines(beam, BeamSegments))

(* draw_beam: n arc segments, then the two boundary rays, emitted in one   *)
(* call                                                                    *)
draw_beam(emitted, radar, beam) ==
  emit_debug_lines(emitted, ArcLines(beam, BeamSegments) \o RayLines(beam, BeamSegments))

(* variant: noise is drawn for every opposing ship examined *)
RECURSIVE ScanLoop_DrawAlways(_, _, _, _, _, _)
ScanLoop_DrawAlways(w, source, radar, beam, order, acc) ==
  IF order = <<>>
    THEN acc
    ELSE LET other == Head(order)
             rssi == compute_rssi(w, beam, source, other)
             n1 == noise(acc.rng, rssi)
             n2 == noise(n1.rng, rssi)
         IN IF SkipTeam(w.shipData[other].team, w.shipData[source].team)
              THEN ScanLoop_DrawAlways(w, source, radar, beam, Tail(order), acc)
              ELSE IF Improves(rssi, radar.min_rssi, acc.result.found, acc.best_rssi)
                     THEN ScanLoop_DrawAlways(w, source, radar, beam, Tail(order),
                            [result |-> [found |-> TRUE,
                                         position |-> Vec(w.bodies[other].pos, n1.value),
                                         velocity |-> Vec(w.bodies[other].vel, n2.value)],
                             best_rssi |-> rssi,
                             rng |-> n2.rng,
                             target |-> other])
                     ELSE ScanLoop_DrawAlways(w, source, radar, beam, Tail(order),
                            [acc EXCEPT !.rng = n2.rng])

(* the `for &other in sim.ships.iter()` loop, over the ships in the order  *)
(* the set yields them                                                     *)
RECURSIVE ScanLoop(_, _, _, _, _, _)
ScanLoop(w, source, radar, beam, order, acc) ==
  IF order = <<>>
    THEN acc
    ELSE LET other == Head(order)
             rssi == compute_rssi(w, beam, source, other)
             n1 == noise(acc.rng, rssi)
             n2 == noise(n1.rng, rssi)
         IN IF SkipTeam(w.shipData[other].team, w.shipData[source].team)
              THEN ScanLoop(w, source, radar, beam, Tail(order), acc)
              ELSE IF Improves(rssi, radar.min_rssi, acc.result.found, acc.best_rssi)
                     THEN ScanLoop(w, source, radar, beam, Tail(order),
                            [result |-> [found |-> TRUE,
                                         position |-> Vec(w.bodies[other].pos, n1.value),
                                         velocity |-> Vec(w.bodies[other].vel, n2.value)],
                             best_rssi |-> rssi,
                             rng |-> n2.rng,
                             target |-> other])
                     ELSE ScanLoop(w, source, radar, beam, Tail(order), acc)

Orders(S) == { f \in [1..Cardinality(S) -> S] : \A i, j \in 1..Cardinality(S) : f[i] = f[j] => i = j }

(* plugin::scan for ship s, the ships set iterated in `order`: the ship's  *)
(* data afterwards, the ScanResult, and what the scan did on the way       *)
scan(w, s, order, now) ==
  LET data == w.shipData[s]
  IN IF data.radar # NoRadar /\ AlreadyScanned(data.radar)
       THEN [data |-> data, result |-> NotFound, target |-> None,
             taken |-> 0, emitted |-> <<>>]
       ELSE IF data.radar = NoRadar
              THEN [data |-> data, result |-> NotFound, target |-> None,
                    taken |-> 0, emitted |-> <<>>]
              ELSE LET data2 == [data EXCEPT !.radar.scanned = TRUE]
                       radar == data2.radar
                       beam == compute_beam(radar, w.bodies[s].pos, w.bodies[s].rot)
                       acc == ScanLoop(w, s, radar, beam, order,
                                [result |-> NotFound, best_rssi |-> RssiZero,
                                 rng |-> scan_rng(now), target |-> None])
                   IN [data |-> data2, result |-> acc.result, target |-> acc.target,
                       taken |-> acc.rng.taken, emitted |-> draw_beam(<<>>, radar, beam)]

(* whether a ship tied with the returned target was visited before it *)
TiedEarlier(w, s, order, target) ==
  /\ target # None
  /\ LET beam == compute_beam(w.shipData[s].radar, w.bodies[s].pos, w.bodies[s].rot)
     IN \E i, j \in DOMAIN order :
          /\ i < j
          /\ order[j] = target
          /\ w.shipData[order[i]].team # w.shipData[s].team
          /\ RssiEQ(compute_rssi(w, beam, s, order[i]), compute_rssi(w, beam, s, target))

(* the number of lines in the batches emitted, all of them or only those   *)
(* that start at the beam's centre                                         *)
RECURSIVE LineCount(_, _)
LineCount(emitted, raysOnly) ==
  IF emitted = <<>>
    THEN 0
    ELSE Cardinality({i \in DOMAIN Head(emitted) : raysOnly => Head(emitted)[i].a = None})
         + LineCount(Tail(emitted), raysOnly)

SetHeading ==
  /\ \E s \in ships, heading \in HeadingRequests :
       /\ shipData' = [shipData EXCEPT ![s] = set_heading(@, heading)]
       /\ last' = [op |-> "set_heading", ship |-> s, arg |-> heading]
  /\ UNCHANGED <<ships, bullets, bodies, colliders, bulletData,
                 contact_recv, intersection_recv, collided, tick>>

SetWidth ==
  /\ \E s \in ships, width \in WidthRequests :
       /\ shipData' = [shipData EXCEPT ![s] = set_width(@, width)]
       /\ last' = [op |-> "set_width", ship |-> s, arg |-> width]
  /\ UNCHANGED <<ships, bullets, bodies, colliders, bulletData,
                 contact_recv, intersection_recv, collided, tick>>

Scan ==
  /\ \E s \in ships, order \in Orders(ships) :
       \E r \in {scan(World, s, order, tick)} :
          /\ shipData' = [shipData EXCEPT ![s] = r.data]
          /\ last' = [op |-> "scan", ship |-> s,
                      wasScanned |-> (shipData[s].radar # NoRadar /\ shipData[s].radar.scanned),
                      result |-> r.result, target |-> r.target,
                      taken |-> r.taken,
                      emits |-> Len(r.emitted),
                      lines |-> LineCount(r.emitted, FALSE),
                      rays |-> LineCount(r.emitted, TRUE),
                      tiedEarlier |-> TiedEarlier(World, s, order, r.target)]
  /\ UNCHANGED <<ships, bullets, bodies, colliders, bulletData,
                 contact_recv, intersection_recv, collided, tick>>

Next ==
  \/ Step
  \/ ShipLookup
  \/ BulletLookup
  \/ SetHeading
  \/ SetWidth
  \/ Scan

Spec == Init /\ [][Next]_vars


(* ============================ properties =============================== *)

HasRadar(s) == shipData[s].radar # NoRadar
BeamOf(s) == compute_beam(shipData[s].radar, bodies[s].pos, bodies[s].rot)
RssiOf(s, t) == compute_rssi(World, BeamOf(s), s, t)
Opposing(s, t) == shipData[t].team # shipData[s].team
WorldUnchanged ==
  UNCHANGED <<ships, bullets, bodies, colliders, shipData, bulletData,
              contact_recv, intersection_recv, collided, tick>>

C2_ContactConsumesBullet ==
  last.op = "step" => last.obs.pairBullets \cap bullets = {}

(* C3: a scan() on a sensor whose scanned flag is set returns not found    *)
(* with zero position and velocity and leaves the ship's data unchanged;   *)
(* every scan() of a radar ship leaves the flag set, and no operation      *)
(* other than step() changes a set flag.                                   *)
C3_OneDetectionPerStep ==
  [][\A s \in ships :
       HasRadar(s) =>
         /\ (last'.op = "scan" /\ last'.ship = s) => shipData'[s].radar.scanned
         /\ (shipData[s].radar.scanned /\ last'.op # "step") => shipData'[s].radar.scanned
         /\ (shipData[s].radar.scanned /\ last'.op = "scan" /\ last'.ship = s) =>
              /\ last'.result = NotFound
              /\ shipData' = shipData]_vars

C3_Witness ==
  /\ last.op = "scan"
  /\ last.wasScanned
  /\ tick = 0
  /\ ~last.result.found
  /\ \E t \in ships :
       /\ Opposing(last.ship, t)
       /\ RssiGT(RssiOf(last.ship, t), shipData[last.ship].radar.min_rssi)

(* C4: after any step() completes, every sensor is back in state Idle      *)
(* (scanned flag false).                                                   *)
C4_StepResetsSensors ==
  last.op = "step" => \A s \in ships : HasRadar(s) => ~shipData[s].radar.scanned

(* C5: whenever scan() returns found, the detected entity is a live ship   *)
(* other than the scanner whose team differs from the scanner's team.      *)
C5_DetectsOpposingOnly ==
  (last.op = "scan" /\ last.result.found) =>
     /\ last.target \in ships
     /\ last.target # last.ship
     /\ Opposing(last.ship, last.target)

C5_Witness ==
  /\ last.op = "scan"
  /\ last.result.found
  /\ \E t \in ships \ {last.ship} :
       /\ ~Opposing(last.ship, t)
       /\ RssiGT(RssiOf(last.ship, t), shipData[last.ship].radar.min_rssi)

(* C6: a drained contact-start event whose two colliders resolve to two    *)
(* bullets, two ships, or a pair with a boundary body on one side leaves   *)
(* the ships set and the bullets set as they were before that event.       *)
C6_OtherContactsDestroyNothing ==
  last.op = "step" => ~last.obs.nonPairDelta

C6_Witness ==
  /\ last.op = "step"
  /\ <<"boundary", "ship">> \in last.obs.nonPair
  /\ <<"ship", "ship">> \in last.obs.nonPair

(* C7 (as stated): a lookup with a handle that is not a live entity fails. *)
C7_LookupFailsOnDeadHandle ==
  (last.op = "lookup" /\ last.handle \notin ships \cup bullets) =>
     last.accessor.kind = "None"

(* C7 (amended): ship(handle), ship_mut(handle) and bullet(handle) do no   *)
(* liveness check: for every handle, live or destroyed, they return an     *)
(* accessor bound to exactly that handle.                                  *)
C7_LookupBindsHandle ==
  last.op = "lookup" =>
     /\ last.accessor.kind # "None"
     /\ last.accessor.handle = last.handle

C7_Witness ==
  /\ last.op = "lookup"
  /\ last.handle \in ShipIds \ ships
  /\ tick > 0

(* C8: step() sets collided when it drains at least one contact-start      *)
(* event, of whatever entities, and otherwise leaves it as it was; no      *)
(* other operation changes it, so once true it stays true.                 *)
C8_CollidedSticky ==
  [][/\ last'.op = "step" => collided' = (collided \/ last'.obs.started)
     /\ last'.op # "step" => collided' = collided]_vars

C8_Witness ==
  /\ last.op = "step"
  /\ ~last.obs.started
  /\ collided
  /\ ships = ShipIds

(* C9: scan() reports a target only if its signal strength is strictly     *)
(* greater than min_rssi; a target exactly at the threshold is not         *)
(* detected.                                                               *)
C9_StrictThreshold ==
  (last.op = "scan" /\ last.result.found) =>
     RssiGT(RssiOf(last.ship, last.target), shipData[last.ship].radar.min_rssi)

C9_Witness ==
  /\ last.op = "scan"
  /\ HasRadar(last.ship)
  /\ ~last.wasScanned
  /\ ~last.result.found
  /\ \E t \in ships :
       /\ Opposing(last.ship, t)
       /\ ~OutsideBeam(BeamOf(last.ship), bodies[t].pos)
       /\ RssiEQ(RssiOf(last.ship, t), shipData[last.ship].radar.min_rssi)

(* C10: set_heading, set_width and scan on a ship without radar change     *)
(* nothing of the simulation, and scan returns the not-found result.       *)
C10_NoRadarNoOp ==
  [][(last'.op \in {"set_heading", "set_width", "scan"} /\ ~HasRadar(last'.ship)) =>
        /\ WorldUnchanged
        /\ last'.op = "scan" => (last'.result = NotFound /\ last'.lines = 0)]_vars

C10_Witness ==
  /\ last.op = "scan"
  /\ ~HasRadar(last.ship)
  /\ last.result = NotFound
  /\ \E t \in ships : Opposing(last.ship, t)

(* C11: after set_width the stored width lies in [TAU/360, TAU]: a request *)
(* below the minimum stores the minimum, a request above the maximum the   *)
(* maximum, a request in the range is stored unchanged; and so every       *)
(* radar's width is in that range in every state.                          *)
C11_WidthInRange ==
  /\ \A s \in ships : HasRadar(s) => shipData[s].radar.width \in (TAU \div 360)..TAU
  /\ (last.op = "set_width" /\ last.ship \in ships /\ HasRadar(last.ship)) =>
        shipData[last.ship].radar.width =
          IF last.arg < TAU \div 360 /\ last.arg # NaN THEN TAU \div 360
          ELSE IF last.arg > TAU THEN TAU
          ELSE last.arg

(* C12: a scan result with found = FALSE has the zero vector, without any  *)
(* noise, as position and as velocity; a result has found = TRUE only if   *)
(* some live ship of another team exceeded min_rssi in this scan.          *)
C12_ResultWellFormed ==
  last.op = "scan" =>
    /\ ~last.result.found =>
          /\ last.result.position = Vec(Zero2, NoNoise)
          /\ last.result.velocity = Vec(Zero2, NoNoise)
          /\ last.target = None
    /\ last.result.found =>
          /\ HasRadar(last.ship)
          /\ ~last.wasScanned
          /\ \E t \in ships :
                /\ Opposing(last.ship, t)
                /\ RssiGT(RssiOf(last.ship, t), shipData[last.ship].radar.min_rssi)

C12_Witness ==
  /\ last.op = "scan"
  /\ HasRadar(last.ship)
  /\ ~last.wasScanned
  /\ ~last.result.found
  /\ last.result.position.raw = Zero2
  /\ \E t \in ships : Opposing(last.ship, t)
  /\ \A t \in ships : Opposing(last.ship, t) => OutsideBeam(BeamOf(last.ship), bodies[t].pos)

(* the sample numbers behind a scan result *)
Drawn(result) ==
  { result.position.noise.samples[i] : i \in DOMAIN result.position.noise.samples }
  \cup { result.velocity.noise.samples[i] : i \in DOMAIN result.velocity.noise.samples }

C15_DrainInOrderOnce ==
  last.op = "step" =>
    /\ last.exploded = last.expected
    /\ \A i, j \in DOMAIN last.exploded : last.exploded[i] = last.exploded[j] => i = j
    /\ \A i \in DOMAIN last.exploded : last.exploded[i] \notin ships
    /\ last.obs.drained = last.queued

C15_Witness ==
  /\ last.op = "step"
  /\ Len(last.exploded) = 1
  /\ last.obs.stale
  /\ ~last.obs.unresolvedDelta
  /\ last.queued = 2
  /\ last.obs.pairBullets # {}

(* C16: a started contact event one of whose colliders does not resolve to *)
(* a body (it is gone, or has no parent) changes neither ships nor         *)
(* bullets, and the events queued after it are handled all the same.       *)
C16_UnresolvedContactSkipped ==
  last.op = "step" =>
    /\ ~last.obs.unresolvedDelta
    /\ last.obs.unresolved => last.obs.drained = last.queued

C16_Witness ==
  /\ last.op = "step"
  /\ last.obs.unresolved
  /\ last.obs.pairAfterUnresolved
  /\ last.exploded # <<>>

(* C20: when step() has returned both event queues are empty, and a step   *)
(* that received intersection events only changed neither ships, bullets   *)
(* nor collided.                                                           *)
C20_QueuesDrained ==
  /\ contact_recv = <<>>
  /\ intersection_recv = <<>>
  /\ (last.op = "step" /\ last.queued = 0) => last.quiet

C20_Witness ==
  /\ last.op = "step"
  /\ last.queued = 0
  /\ last.intersections > 0
  /\ intersection_recv = <<>>
  /\ tick = MaxTick
  /\ collided

(* C17: when scan() detects, the ship it returns is an opposing ship whose *)
(* signal strength is the highest among the opposing ships, whatever the   *)
(* order in which the ships set is visited; among ships tied for the       *)
(* highest strength the first visited is returned.                         *)
C17_ReturnsStrongest ==
  (last.op = "scan" /\ last.result.found) =>
    /\ last.target \in ships
    /\ Opposing(last.ship, last.target)
    /\ last.result.position.raw = bodies[last.target].pos
    /\ \A t \in ships :
         Opposing(last.ship, t) =>
           ~RssiGT(RssiOf(last.ship, t), RssiOf(last.ship, last.target))
    /\ ~last.tiedEarlier

C17_Witness ==
  /\ last.op = "scan"
  /\ last.result.found
  /\ \E t \in ships \ {last.target} :
       /\ Opposing(last.ship, t)
       /\ RssiEQ(RssiOf(last.ship, t), RssiOf(last.ship, last.target))
  /\ RssiGT(RssiOf(last.ship, last.target), RssiZero)

(* C18, as claimed: a scan that detects takes exactly one position draw    *)
(* and one velocity draw (two samples each), a scan that does not detect   *)
(* takes none, whatever the number of targets and the visiting order.      *)
C18_OneDrawPair ==
  last.op = "scan" =>
    last.taken = IF last.result.found THEN 4 ELSE 0

(* C18, amended: scan draws a position noise and a velocity noise each     *)
(* time a candidate replaces the current best; the result carries the last *)
(* four samples drawn, scaled by the returned target's strength, and a     *)
(* scan that does not detect draws nothing.                                *)
C18_DrawsPerImprovement ==
  last.op = "scan" =>
    /\ ~last.result.found => last.taken = 0
    /\ last.result.found =>
         /\ last.taken >= 4
         /\ last.taken % 4 = 0
         /\ last.result.position.noise.samples = <<last.taken - 3, last.taken - 2>>
         /\ last.result.velocity.noise.samples = <<last.taken - 1, last.taken>>
         /\ last.result.position.noise.over = RssiOf(last.ship, last.target)
         /\ last.result.velocity.noise.over = RssiOf(last.ship, last.target)

C18_Witness ==
  /\ last.op = "scan"
  /\ last.result.found
  /\ last.taken = 8
  /\ shipData[last.ship].radar.min_rssi = <<1, 1>>

(* C19, as claimed: a ship outside the beam is never the target a scan     *)
(* returns, whatever the sensor's configuration.                           *)
C19_OutOfBeamNeverReturned ==
  (last.op = "scan" /\ last.result.found) =>
    ~OutsideBeam(BeamOf(last.ship), bodies[last.target].pos)

(* C19, amended: a ship outside the beam has signal strength zero, and no  *)
(* scan of a sensor whose min_rssi is not below zero returns it.           *)
C19_OutOfBeamZero ==
  /\ \A s, t \in ships :
       (HasRadar(s) /\ OutsideBeam(BeamOf(s), bodies[t].pos)) => RssiOf(s, t) = RssiZero
  /\ (/\ last.op = "scan"
      /\ last.result.found
      /\ ~RssiGT(RssiZero, shipData[last.ship].radar.min_rssi)) =>
        ~OutsideBeam(BeamOf(last.ship), bodies[last.target].pos)

C19_Witness ==
  /\ last.op = "scan"
  /\ last.result.found
  /\ ~RssiGT(RssiZero, shipData[last.ship].radar.min_rssi)
  /\ \E t \in ships :
       /\ Opposing(last.ship, t)
       /\ OutsideBeam(BeamOf(last.ship), bodies[t].pos)

(* C21: a scan() of a radar ship whose sensor was not yet used emits the   *)
(* beam visualisation exactly once, 20 arc segments and 2 boundary rays,   *)
(* found or not; apart from the emitted lines the scan changes only the    *)
(* sensor's used flag: ships, bullets, bodies, queues, collided, tick and  *)
(* every other sensor field stay as they were.                             *)
C21_BeamDrawnOnce ==
  [][(last'.op = "scan" /\ HasRadar(last'.ship) /\ ~last'.wasScanned) =>
        /\ last'.emits = 1
        /\ last'.lines = BeamSegments + 2
        /\ last'.rays = 2
        /\ shipData' = [shipData EXCEPT ![last'.ship].radar.scanned = TRUE]
        /\ UNCHANGED <<ships, bullets, bodies, colliders, bulletData,
                       contact_recv, intersection_recv, collided, tick>>]_vars

C21_Witness ==
  /\ last.op = "scan"
  /\ HasRadar(last.ship)
  /\ ~last.wasScanned
  /\ ~last.result.found
  /\ last.emits = 1
  /\ last.lines = BeamSegments + 2
  /\ \E t \in ships : Opposing(last.ship, t)
====
